---- MODULE Spec2Model ----
(***************************************************************************)
(* A model of "Python labs/download_youtube.py": the platform detector,    *)
(* the filename sanitizer, the option block built by download() and the    *)
(* run of main() from the import guard to the process exit.                *)
(*                                                                         *)
(* Python strings are TLA+ strings; TLC evaluates Len, \o, Head, Tail and  *)
(* SubSeq on them, so the string functions below work character by         *)
(* character, as the Python ones do.                                       *)
(***************************************************************************)
EXTENDS Integers, Sequences, FiniteSets, TLC

VARIABLES
    pc,        \* position of the run
    arg,       \* the command line of the run, or the argument of the helper
    ret,       \* value the helper returned (helper specifications)
    args,      \* argparse namespace handed to download()
    fs,        \* file system: [dirs, files], sets of paths (sequences of parts)
    mkdirs,    \* directories the run created, in order
    ydl_opts,  \* option block of download()
    stdout,    \* what print() wrote
    stderr,    \* what sys.exit(message) and uncaught exceptions wrote
    requests,  \* calls of YoutubeDL(opts).download([url]) and how each ended
    status     \* process exit status, None while running

vars ==
    <<pc, arg, ret, args, fs, mkdirs, ydl_opts, stdout, stderr, requests,
      status>>

None == "None"

\* a namespace or an option block that does not exist yet
Unset == <<>>

IsSet(r) == DOMAIN r # {}

(***************************************************************************)
(* Bounds of the model.                                                    *)
(***************************************************************************)
MaxHostParts == 2     \* pieces concatenated into the host of a URL
MaxTitleLen == 3      \* characters of a title given to safe_title
MaxNameLen == 2       \* characters of a --name value

(***************************************************************************)
(* str operations.                                                         *)
(***************************************************************************)
Char(s, i) == SubSeq(s, i, i)

\* p in s
Contains(s, p) ==
    \E i \in 0..(Len(s) - Len(p)) : SubSeq(s, i + 1, i + Len(p)) = p

RECURSIVE FindFrom(_, _, _)
\* s.find(c, i) for a single character, 1-based; 0 when absent
FindFrom(s, c, i) ==
    IF i > Len(s) THEN 0
    ELSE IF Char(s, i) = c THEN i
    ELSE FindFrom(s, c, i + 1)

\* s.find(c)
FindChar(s, c) == FindFrom(s, c, 1)

RECURSIVE RFindFrom(_, _, _)
RFindFrom(s, c, i) ==
    IF i < 1 THEN 0
    ELSE IF Char(s, i) = c THEN i
    ELSE RFindFrom(s, c, i - 1)

\* s.rfind(c), 1-based; 0 when absent
RFindChar(s, c) == RFindFrom(s, c, Len(s))

\* the characters of a string
Chars(s) == {Char(s, i) : i \in 1..Len(s)}

ascii_lowercase == "abcdefghijklmnopqrstuvwxyz"
ascii_uppercase == "ABCDEFGHIJKLMNOPQRSTUVWXYZ"
digits == "0123456789"

\* the lower-case letter of each upper-case ASCII letter
ToLower ==
    [A |-> "a", B |-> "b", C |-> "c", D |-> "d", E |-> "e", F |-> "f",
     G |-> "g", H |-> "h", I |-> "i", J |-> "j", K |-> "k", L |-> "l",
     M |-> "m", N |-> "n", O |-> "o", P |-> "p", Q |-> "q", R |-> "r",
     S |-> "s", T |-> "t", U |-> "u", V |-> "v", W |-> "w", X |-> "x",
     Y |-> "y", Z |-> "z"]

LowerChar(c) == IF c \in DOMAIN ToLower THEN ToLower[c] ELSE c

RECURSIVE Lower(_)
\* s.lower()
Lower(s) == IF Len(s) = 0 THEN "" ELSE LowerChar(Head(s)) \o Lower(Tail(s))

\* str.strip() with no argument strips these
Whitespace == {" ", "\t", "\n", "\r", "\f"}

RECURSIVE LStrip(_)
LStrip(s) ==
    IF Len(s) > 0 /\ Head(s) \in Whitespace THEN LStrip(Tail(s)) ELSE s

RECURSIVE RStrip(_)
RStrip(s) ==
    IF Len(s) > 0 /\ Char(s, Len(s)) \in Whitespace
    THEN RStrip(SubSeq(s, 1, Len(s) - 1))
    ELSE s

\* s.strip()
Strip(s) == LStrip(RStrip(s))

RECURSIVE RStripChars(_, _)
\* s.rstrip(chars)
RStripChars(s, chars) ==
    IF Len(s) > 0 /\ Contains(chars, Char(s, Len(s)))
    THEN RStripChars(SubSeq(s, 1, Len(s) - 1), chars)
    ELSE s

(***************************************************************************)
(* urllib.parse.urlparse(url).netloc, for URLs of printable ASCII without  *)
(* white space: the scheme is split off at the first ":" when what stands  *)
(* before it is a scheme; a netloc is present only behind "//" and runs to *)
(* the first of "/", "?" and "#"; a netloc with one square bracket and not *)
(* the other raises ValueError.                                            *)
(***************************************************************************)
ValueError == "ValueError"

scheme_chars == Chars(ascii_lowercase \o ascii_uppercase \o digits \o "+-.")

ascii_letters == Chars(ascii_lowercase \o ascii_uppercase)

AfterScheme(url) ==
    LET i == FindChar(url, ":")
    IN  IF /\ i > 1
           /\ Char(url, 1) \in ascii_letters
           /\ \A j \in 1..(i - 1) : Char(url, j) \in scheme_chars
        THEN SubSeq(url, i + 1, Len(url))
        ELSE url

\* _splitnetloc(url, 2)[0]
SplitNetloc(rest) ==
    LET found == {i \in {FindFrom(rest, c, 3) : c \in {"/", "?", "#"}} : i > 0}
        delim == IF found = {} THEN Len(rest) + 1
                 ELSE CHOOSE i \in found : \A j \in found : i <= j
    IN  SubSeq(rest, 3, delim - 1)

Netloc(url) ==
    LET rest == AfterScheme(url)
    IN  IF Len(rest) >= 2 /\ SubSeq(rest, 1, 2) = "//"
        THEN LET netloc == SplitNetloc(rest)
             IN  IF Contains(netloc, "[") # Contains(netloc, "]")
                 THEN ValueError
                 ELSE netloc
        ELSE ""

(***************************************************************************)
(* detect_platform                                                         *)
(***************************************************************************)
YouTubeHosts == {"youtube.com", "youtu.be", "youtube-nocookie.com"}
InstagramHosts == {"instagram.com", "instagr.am"}

\* mutant: the second Instagram host is forgotten
detect_platform_one_instagram_host(url) ==
    IF Netloc(url) = ValueError THEN ValueError
    ELSE LET netloc == Lower(Netloc(url))
         IN  IF \E p \in YouTubeHosts : Contains(netloc, p) THEN "youtube"
             ELSE IF Contains(netloc, "instagram.com") THEN "instagram"
                  ELSE "other"

\* mutant: the netloc is matched as written, not lower-cased
detect_platform_case_sensitive(url) ==
    IF Netloc(url) = ValueError THEN ValueError
    ELSE LET netloc == Netloc(url)
         IN  IF \E p \in YouTubeHosts : Contains(netloc, p) THEN "youtube"
             ELSE IF \E p \in InstagramHosts : Contains(netloc, p)
                  THEN "instagram"
                  ELSE "other"

\* mutant: the whole URL is matched, not its netloc
detect_platform_whole_url(url) ==
    IF Netloc(url) = ValueError THEN ValueError
    ELSE LET netloc == Lower(url)
         IN  IF \E p \in YouTubeHosts : Contains(netloc, p) THEN "youtube"
             ELSE IF \E p \in InstagramHosts : Contains(netloc, p)
                  THEN "instagram"
                  ELSE "other"

detect_platform(url) ==
    IF Netloc(url) = ValueError THEN ValueError
    ELSE LET netloc == Lower(Netloc(url))
         IN  IF \E p \in YouTubeHosts : Contains(netloc, p) THEN "youtube"
             ELSE IF \E p \in InstagramHosts : Contains(netloc, p)
                  THEN "instagram"
                  ELSE "other"

(***************************************************************************)
(* safe_title                                                              *)
(***************************************************************************)
\* the character class of the regular expression: < > : " / \ | ? *
IllegalChars == {"<", ">", ":", "\"", "/", "\\", "|", "?", "*"}

RECURSIVE ReSub(_)
\* re.sub(r'[<>:"/\\|?*]', "_", title)
ReSub(title) ==
    IF Len(title) = 0 THEN ""
    ELSE (IF Head(title) \in IllegalChars THEN "_" ELSE Head(title))
             \o ReSub(Tail(title))

\* mutant: the result is not stripped
safe_title_not_stripped(title) == ReSub(title)

safe_title(title) == Strip(ReSub(title))

(***************************************************************************)
(* pathlib on a POSIX system: a path is the sequence of its parts.         *)
(***************************************************************************)
RECURSIVE Split(_, _)
\* s.split(c)
Split(s, c) ==
    LET i == FindChar(s, c)
    IN  IF i = 0 THEN <<s>>
        ELSE <<SubSeq(s, 1, i - 1)>> \o Split(SubSeq(s, i + 1, Len(s)), c)

IsName(part) == part # "" /\ part # "."

\* Path(s).parts: empty and "." parts are dropped, a leading "/" is the root
Path(s) ==
    (IF Len(s) > 0 /\ Head(s) = "/" THEN <<"/">> ELSE <<>>)
        \o SelectSeq(Split(s, "/"), IsName)

\* the home directory of the user, of the environment
HomeDir == <<"/", "home", "user">>

\* path.expanduser()
ExpandUser(path) ==
    IF Len(path) > 0 /\ path[1] = "~" THEN HomeDir \o Tail(path) ELSE path

RECURSIVE Join(_, _)
\* sep.join(parts)
Join(parts, sep) ==
    IF Len(parts) = 0 THEN ""
    ELSE IF Len(parts) = 1 THEN parts[1]
    ELSE parts[1] \o sep \o Join(Tail(parts), sep)

\* str(path)
PathStr(path) ==
    IF Len(path) = 0 THEN "."
    ELSE IF path[1] = "/" THEN "/" \o Join(Tail(path), "/")
    ELSE Join(path, "/")

\* out_path = Path(out_dir).expanduser()
OutPath(out_dir) == ExpandUser(Path(out_dir))

\* the path and its parents, outermost first
Ancestors(path) == [k \in 1..Len(path) |-> SubSeq(path, 1, k)]

\* mutant: exist_ok is not given, a directory that exists is an error
MkdirRaises_exists_not_ok(filesystem, path) ==
    \/ path \in filesystem.dirs
    \/ \E k \in 1..Len(path) : SubSeq(path, 1, k) \in filesystem.files

\* path.mkdir(parents=True, exist_ok=True) raises when the path or one of
\* its parents is a file
MkdirRaises(filesystem, path) ==
    \E k \in 1..Len(path) : SubSeq(path, 1, k) \in filesystem.files

\* what it raises: the path is a file, or a parent of it is
MkdirError(filesystem, path) ==
    IF path \in filesystem.files THEN "FileExistsError"
    ELSE "NotADirectoryError"

IsMissing(dirs, p) == p \notin dirs

\* the directories mkdir(parents=True, exist_ok=True) creates, in order
MkdirCreates(dirs, path) ==
    LET missing(p) == IsMissing(dirs, p)
    IN  SelectSeq(Ancestors(path), missing)

(***************************************************************************)
(* download: the output template and the option block.                     *)
(***************************************************************************)
\* template = safe_title((custom_name or "%(title)s").strip())
template_stem(custom_name) ==
    safe_title(Strip(IF custom_name = None \/ custom_name = ""
                     THEN "%(title)s"
                     ELSE custom_name))

\* str(out_path / f"{template}.%(ext)s")
outtmpl(out_dir, custom_name) ==
    PathStr(OutPath(out_dir) \o <<template_stem(custom_name) \o ".%(ext)s">>)

FFmpegExtractAudio ==
    [key |-> "FFmpegExtractAudio",
     preferredcodec |-> "mp3",
     preferredquality |-> "192"]

\* mutant: the height keeps its unit
format_selector_keeps_unit(quality) ==
    IF quality = "best"
    THEN "bestvideo[ext=mp4]+bestaudio[ext=m4a]/best[ext=mp4]/best"
    ELSE IF quality = "worst" THEN "worst"
    ELSE "bestvideo[height<=" \o quality \o "][ext=mp4]+bestaudio[ext=m4a]"
            \o "/best[height<=" \o quality \o "]/best"

\* the format selector of a video download
format_selector(quality) ==
    IF quality = "best"
    THEN "bestvideo[ext=mp4]+bestaudio[ext=m4a]/best[ext=mp4]/best"
    ELSE IF quality = "worst" THEN "worst"
    ELSE LET height == RStripChars(quality, "p")
         IN  "bestvideo[height<=" \o height \o "][ext=mp4]+bestaudio[ext=m4a]"
                \o "/best[height<=" \o height \o "]/best"

\* the option block before the format selection
base_opts(out_dir, custom_name) ==
    [outtmpl |-> outtmpl(out_dir, custom_name),
     ignoreerrors |-> FALSE,
     quiet |-> FALSE,
     no_warnings |-> TRUE]

\* ydl_opts.update(...) with audio_only
audio_opts ==
    [format |-> "bestaudio/best", postprocessors |-> <<FFmpegExtractAudio>>]

\* mutant: the quality is looked at before the audio-only flag
download_opts_quality_first(url, audio_only, quality, out_dir, custom_name) ==
    IF quality = "worst"
    THEN [format |-> "worst"] @@ base_opts(out_dir, custom_name)
    ELSE IF audio_only
    THEN audio_opts @@ base_opts(out_dir, custom_name)
    ELSE [format |-> format_selector(quality)]
            @@ base_opts(out_dir, custom_name)

\* mutant: the platform chooses the format
download_opts_by_platform(url, audio_only, quality, out_dir, custom_name) ==
    IF audio_only
    THEN audio_opts @@ base_opts(out_dir, custom_name)
    ELSE [format |-> IF detect_platform(url) = "instagram" THEN "best"
                     ELSE format_selector(quality)]
            @@ base_opts(out_dir, custom_name)

\* ydl_opts as download(url, audio_only=, quality=, out_dir=, custom_name=)
\* builds it; the URL has no part in it
download_opts(url, audio_only, quality, out_dir, custom_name) ==
    IF audio_only
    THEN audio_opts @@ base_opts(out_dir, custom_name)
    ELSE [format |-> format_selector(quality)]
            @@ base_opts(out_dir, custom_name)

(***************************************************************************)
(* Inputs of the helper specifications.                                    *)
(***************************************************************************)
RECURSIVE Strings(_, _)
\* every string of at most n characters of the alphabet
Strings(alphabet, n) ==
    IF n = 0 THEN {""}
    ELSE LET shorter == Strings(alphabet, n - 1)
         IN  shorter \cup {s \o c : s \in shorter, c \in alphabet}

RECURSIVE Concats(_, _)
\* every concatenation of at most n of the pieces
Concats(pieces, n) ==
    IF n = 0 THEN {""}
    ELSE LET shorter == Concats(pieces, n - 1)
         IN  shorter \cup {s \o p : s \in shorter, p \in pieces}

UrlPrefixes == {"https://", "//", ""}
UrlUserInfos == {"", "youtube.com:pw@"}
UrlHostPieces ==
    {"youtube.com", "YouTu.Be", "youtube-nocookie.com", "instagram.com",
     "INSTAGR.AM", "example.org", "["}
UrlPorts == {"", ":youtu.be"}
UrlRests == {"", "/watch?v=youtube.com", "?next=instagram.com", "#youtu.be"}

Urls ==
    {pre \o user \o host \o port \o rest :
        pre \in UrlPrefixes, user \in UrlUserInfos,
        host \in Concats(UrlHostPieces, MaxHostParts),
        port \in UrlPorts, rest \in UrlRests}

TitleChars == IllegalChars \cup {"a", "_", " ", "\t"}
Titles == Strings(TitleChars, MaxTitleLen)

IdleProgram ==
    /\ args = Unset
    /\ fs = [dirs |-> {}, files |-> {}]
    /\ mkdirs = <<>>
    /\ ydl_opts = Unset
    /\ stdout = <<>>
    /\ stderr = <<>>
    /\ requests = <<>>
    /\ status = None

ProgramVars ==
    <<args, fs, mkdirs, ydl_opts, stdout, stderr, requests, status>>

(***************************************************************************)
(* SpecDetect: detect_platform applied to a URL.                           *)
(***************************************************************************)
InitDetect ==
    /\ pc = "call"
    /\ arg \in Urls
    /\ ret = None
    /\ IdleProgram

CallDetectPlatform ==
    /\ pc = "call"
    /\ ret' = detect_platform(arg)
    /\ pc' = "returned"
    /\ UNCHANGED <<arg, ProgramVars>>

NextDetect == CallDetectPlatform

SpecDetect == InitDetect /\ [][NextDetect]_vars

(***************************************************************************)
(* SpecTitle: safe_title applied to a title.                               *)
(***************************************************************************)
InitTitle ==
    /\ pc = "call"
    /\ arg \in Titles
    /\ ret = None
    /\ IdleProgram

CallSafeTitle ==
    /\ pc = "call"
    /\ ret' = safe_title(arg)
    /\ pc' = "returned"
    /\ UNCHANGED <<arg, ProgramVars>>

NextTitle == CallSafeTitle

SpecTitle == InitTitle /\ [][NextTitle]_vars

(***************************************************************************)
(* Spec: one run of the script, from the import guard to the exit.         *)
(***************************************************************************)
QualityChoices == {"best", "worst", "720p", "480p", "360p"}

ProgramUrls ==
    {"https://www.youtube.com/watch?v=a", "https://instagram.com/reel/b",
     "https://[example.org/c"}

NameChars == {"a", " "}
Names == Strings(NameChars, MaxNameLen) \cup {"../a", "a:b"}

\* command lines: an option that is not given is None
Argvs ==
    [help : {FALSE},
     url : ProgramUrls,
     audio_only : BOOLEAN,
     quality : {None, "worst", "720p", "480p", "360p"},
     output_dir : {None, "out/clips", "~/v"},
     name : Names \cup {None}]
    \cup
    [help : BOOLEAN,
     url : {None, "https://youtu.be/a"},
     audio_only : {FALSE},
     quality : {None, "best", "1080p"},
     output_dir : {None},
     name : {None}]

SystemDirs == {<<"/">>, <<"/", "home">>, HomeDir}

InitialFileSystems ==
    {[dirs |-> SystemDirs, files |-> {}],
     [dirs |-> SystemDirs \cup {<<"downloads">>, <<"out">>}, files |-> {}],
     [dirs |-> SystemDirs, files |-> {<<"downloads">>}],
     [dirs |-> SystemDirs \cup {<<"out">>}, files |-> {<<"out", "clips">>}]}

Init ==
    /\ pc = "import"
    /\ arg \in Argvs
    /\ ret = None
    /\ args = Unset
    /\ fs \in InitialFileSystems
    /\ mkdirs = <<>>
    /\ ydl_opts = Unset
    /\ stdout = <<>>
    /\ stderr = <<>>
    /\ requests = <<>>
    /\ status = None

\* mutant: the message is printed and the run ends with status 0
SysExit_status_zero(message) ==
    /\ stderr' = Append(stderr, message)
    /\ status' = 0
    /\ pc' = "exit"

\* sys.exit(message): the message goes to stderr and the status is 1
SysExit(message) ==
    /\ stderr' = Append(stderr, message)
    /\ status' = 1
    /\ pc' = "exit"

\* an exception nothing catches: the traceback goes to stderr, the status is 1
Uncaught(exception) ==
    /\ stderr' = Append(stderr, "Traceback: " \o exception)
    /\ status' = 1
    /\ pc' = "exit"

\* try: import yt_dlp / except ImportError: sys.exit(...)
ImportGuard ==
    /\ pc = "import"
    /\ \E installed \in BOOLEAN :
          IF installed
          THEN pc' = "parse_args" /\ UNCHANGED <<stderr, status>>
          ELSE SysExit("yt-dlp is required:  pip install yt-dlp")
    /\ UNCHANGED <<arg, ret, args, fs, mkdirs, ydl_opts, stdout, requests>>

\* p.parse_args() on -h/--help: prints the help and exits with status 0
ParseArgsHelp ==
    /\ pc = "parse_args"
    /\ arg.help
    /\ stdout' = Append(stdout, "usage")
    /\ status' = 0
    /\ pc' = "exit"
    /\ UNCHANGED <<arg, ret, args, fs, mkdirs, ydl_opts, stderr, requests>>

ArgvInvalid(argv) ==
    \/ argv.url = None
    \/ argv.quality \notin QualityChoices \cup {None}

\* p.parse_args() on a missing URL or a quality outside the choices: prints
\* the error and exits with status 2. With -h given as well, the first of
\* the two on the command line decides.
ParseArgsError ==
    /\ pc = "parse_args"
    /\ ArgvInvalid(arg)
    /\ stderr' = Append(stderr, "usage: error")
    /\ status' = 2
    /\ pc' = "exit"
    /\ UNCHANGED <<arg, ret, args, fs, mkdirs, ydl_opts, stdout, requests>>

\* args = p.parse_args(), with the defaults of add_argument
ParseArgs ==
    /\ pc = "parse_args"
    /\ ~arg.help
    /\ ~ArgvInvalid(arg)
    /\ args' = [url |-> arg.url,
                audio_only |-> arg.audio_only,
                quality |-> IF arg.quality = None THEN "best" ELSE arg.quality,
                output_dir |-> IF arg.output_dir = None THEN "downloads"
                               ELSE arg.output_dir,
                name |-> arg.name]
    /\ pc' = "mkdir"
    /\ UNCHANGED <<arg, ret, fs, mkdirs, ydl_opts, stdout, stderr, requests,
                   status>>

\* out_path = Path(out_dir).expanduser(); out_path.mkdir(parents=True,
\* exist_ok=True)
Mkdir ==
    /\ pc = "mkdir"
    /\ LET out_path == OutPath(args.output_dir)
       IN  IF MkdirRaises(fs, out_path)
           THEN /\ Uncaught(MkdirError(fs, out_path))
                /\ UNCHANGED <<fs, mkdirs>>
           ELSE /\ mkdirs' = mkdirs \o MkdirCreates(fs.dirs, out_path)
                /\ fs' = [fs EXCEPT !.dirs =
                            @ \cup {SubSeq(out_path, 1, k) :
                                        k \in 1..Len(out_path)}]
                /\ pc' = "build_opts"
                /\ UNCHANGED <<stderr, status>>
    /\ UNCHANGED <<arg, ret, args, ydl_opts, stdout, requests>>

\* the template, the option block and the format selection
BuildOpts ==
    /\ pc = "build_opts"
    /\ ydl_opts' = download_opts(args.url, args.audio_only, args.quality,
                                 args.output_dir, args.name)
    /\ pc' = "print"
    /\ UNCHANGED <<arg, ret, args, fs, mkdirs, stdout, stderr, requests,
                   status>>

\* print(f"-> platform: {detect_platform(url)}"); print(f"-> saving to: ...")
\* A URL urlparse rejects ends the run with the ValueError.
PrintPlatform ==
    /\ pc = "print"
    /\ IF detect_platform(args.url) = ValueError
       THEN /\ Uncaught("ValueError")
            /\ UNCHANGED stdout
       ELSE /\ stdout' = stdout \o
                    <<"platform: " \o detect_platform(args.url),
                      "saving to: " \o PathStr(OutPath(args.output_dir))>>
            /\ pc' = "ydl_download"
            /\ UNCHANGED <<stderr, status>>
    /\ UNCHANGED <<arg, ret, args, fs, mkdirs, ydl_opts, requests>>

DelegateOutcomes == {"returned", "KeyboardInterrupt", "DownloadError"}

\* with yt_dlp.YoutubeDL(ydl_opts) as ydl: ydl.download([url])
\* The delegate returns, is interrupted by the user, or raises its own error;
\* main() catches the KeyboardInterrupt alone.
YdlDownload ==
    /\ pc = "ydl_download"
    /\ \E outcome \in DelegateOutcomes :
          /\ requests' = Append(requests, [url |-> args.url,
                                           opts |-> ydl_opts,
                                           outcome |-> outcome])
          /\ CASE outcome = "returned" ->
                    pc' = "finished" /\ UNCHANGED <<stderr, status>>
               [] outcome = "KeyboardInterrupt" -> SysExit("aborted by user")
               [] outcome = "DownloadError" -> Uncaught("DownloadError")
    /\ UNCHANGED <<arg, ret, args, fs, mkdirs, ydl_opts, stdout>>

\* print("finished"); download() and main() return
Finished ==
    /\ pc = "finished"
    /\ stdout' = Append(stdout, "finished")
    /\ status' = 0
    /\ pc' = "exit"
    /\ UNCHANGED <<arg, ret, args, fs, mkdirs, ydl_opts, stderr, requests>>

\* a KeyboardInterrupt raised in download() outside the delegate's call
Interrupt ==
    /\ pc \in {"mkdir", "build_opts", "print", "finished"}
    /\ SysExit("aborted by user")
    /\ UNCHANGED <<arg, ret, args, fs, mkdirs, ydl_opts, stdout, requests>>

Next ==
    \/ ImportGuard
    \/ ParseArgsHelp
    \/ ParseArgsError
    \/ ParseArgs
    \/ Mkdir
    \/ BuildOpts
    \/ PrintPlatform
    \/ YdlDownload
    \/ Finished
    \/ Interrupt

Spec == Init /\ [][Next]_vars

(***************************************************************************)
(* The host of a URL, as urlparse(url).hostname gives it: the netloc       *)
(* without the user-info before the last "@" and without the port behind   *)
(* the first ":", in lower case.                                           *)
(***************************************************************************)
Parses(url) == Netloc(url) # ValueError

Host(url) ==
    LET netloc == Netloc(url)
        hostinfo == SubSeq(netloc, RFindChar(netloc, "@") + 1, Len(netloc))
        colon == FindChar(hostinfo, ":")
    IN  Lower(IF colon = 0 THEN hostinfo ELSE SubSeq(hostinfo, 1, colon - 1))

HostHas(url, hosts) ==
    LET host == Host(url)
    IN  Parses(url) /\ \E p \in hosts : Contains(host, p)

NetlocHas(url, hosts) ==
    LET netloc == Lower(Netloc(url))
    IN  Parses(url) /\ \E p \in hosts : Contains(netloc, p)

Returned == pc = "returned"

(***************************************************************************)
(* C1 as stated: for every URL whose host contains an Instagram substring, *)
(* also when it contains a YouTube substring as well, detect_platform      *)
(* returns "instagram".                                                    *)
(***************************************************************************)
C1_Original ==
    (Returned /\ HostHas(arg, InstagramHosts)) => ret = "instagram"

(***************************************************************************)
(* C1 amended: for every URL whose host contains an Instagram substring    *)
(* and whose netloc (user-info, host, port) contains no YouTube substring, *)
(* detect_platform returns "instagram"; when the netloc contains a YouTube *)
(* substring too, it returns "youtube".                                    *)
(***************************************************************************)
C1_InstagramUnlessYouTube ==
    (Returned /\ HostHas(arg, InstagramHosts)) =>
        ret = IF NetlocHas(arg, YouTubeHosts) THEN "youtube" ELSE "instagram"

C1_Witness ==
    /\ Returned
    /\ HostHas(arg, InstagramHosts)
    /\ Contains(arg, "INSTAGR.AM")
    /\ ~NetlocHas(arg, YouTubeHosts)
    /\ ret = "instagram"

(***************************************************************************)
(* C2: for every URL whose host contains youtube.com, youtu.be or          *)
(* youtube-nocookie.com, in any letter case, detect_platform returns       *)
(* "youtube".                                                              *)
(***************************************************************************)
C2_YouTubeHost ==
    (Returned /\ HostHas(arg, YouTubeHosts)) => ret = "youtube"

C2_Witness ==
    /\ Returned
    /\ HostHas(arg, YouTubeHosts)
    /\ ~\E p \in YouTubeHosts : Contains(arg, p)
    /\ ret = "youtube"

(***************************************************************************)
(* C3 as stated: for every URL whose host contains neither a YouTube nor   *)
(* an Instagram substring, detect_platform returns "other", whatever its   *)
(* user-info, port, path and query are.                                    *)
(***************************************************************************)
C3_Original ==
    (/\ Returned
     /\ Parses(arg)
     /\ ~HostHas(arg, YouTubeHosts \cup InstagramHosts)) => ret = "other"

(***************************************************************************)
(* C3 amended: for every URL that urlparse accepts and whose netloc        *)
(* (user-info, host and port together) contains neither a YouTube nor an   *)
(* Instagram substring, detect_platform returns "other"; the result is     *)
(* decided by the netloc alone, not by the scheme, path, query or          *)
(* fragment.                                                               *)
(***************************************************************************)
C3_OtherByNetloc ==
    (Returned /\ Parses(arg)) =>
        /\ ~NetlocHas(arg, YouTubeHosts \cup InstagramHosts) => ret = "other"
        /\ ret = detect_platform("//" \o Netloc(arg))

C3_Witness ==
    /\ Returned
    /\ Parses(arg)
    /\ Len(Host(arg)) > 0
    /\ Contains(arg, "youtube.com")
    /\ ~NetlocHas(arg, YouTubeHosts \cup InstagramHosts)
    /\ ret = "other"

(***************************************************************************)
(* C4 as stated: safe_title removes every character of < > : " / \ | ? *,  *)
(* keeps the other characters in order and trims the result: the result is *)
(* the title without those characters, trimmed.                            *)
(***************************************************************************)
RECURSIVE Without(_, _)
Without(s, chars) ==
    IF Len(s) = 0 THEN ""
    ELSE (IF Head(s) \in chars THEN "" ELSE Head(s)) \o Without(Tail(s), chars)

Built == IsSet(ydl_opts)

Requested == Len(requests) > 0

(***************************************************************************)
(* C5: with audio-only true the option block is the same for every value   *)
(* of the quality argument: the format selector is "bestaudio/best", with  *)
(* one post-processing directive that converts to mp3 at bitrate 192, and  *)
(* that block is the one handed to the delegate.                           *)
(***************************************************************************)
C5_AudioOnlyIgnoresQuality ==
    (Built /\ args.audio_only) =>
        /\ ydl_opts.format = "bestaudio/best"
        /\ ydl_opts.postprocessors =
              <<[key |-> "FFmpegExtractAudio",
                 preferredcodec |-> "mp3",
                 preferredquality |-> "192"]>>
        /\ \A q \in QualityChoices :
              ydl_opts = download_opts(args.url, TRUE, q, args.output_dir,
                                       args.name)
        /\ \A i \in 1..Len(requests) : requests[i].opts = ydl_opts

C5_Witness ==
    /\ Built
    /\ args.audio_only
    /\ args.quality = "worst"
    /\ Requested
    /\ requests[1].opts.format = "bestaudio/best"

(***************************************************************************)
(* C6: with audio-only false and quality 720p, 480p or 360p the format     *)
(* selector has exactly three tiers, in this order: the best mp4 video of  *)
(* height <= 720 (480, 360) with the best m4a audio, the best stream of    *)
(* that height, the best stream; no post-processing directive is added.    *)
(***************************************************************************)
C6_ResolutionSelector ==
    (Built /\ ~args.audio_only /\ args.quality \in {"720p", "480p", "360p"})
    =>
        LET height == CASE args.quality = "720p" -> "720"
                        [] args.quality = "480p" -> "480"
                        [] args.quality = "360p" -> "360"
        IN  /\ Split(ydl_opts.format, "/") =
                  <<"bestvideo[height<=" \o height
                        \o "][ext=mp4]+bestaudio[ext=m4a]",
                    "best[height<=" \o height \o "]",
                    "best">>
            /\ "postprocessors" \notin DOMAIN ydl_opts

C6_Witness ==
    /\ Requested
    /\ ~args.audio_only
    /\ args.quality = "720p"
    /\ requests[1].opts.format =
          "bestvideo[height<=720][ext=mp4]+bestaudio[ext=m4a]/best[height<=720]/best"

(***************************************************************************)
(* C7: when the delegate's download is about to be requested, and from     *)
(* then on, the output directory exists; a directory that exists already   *)
(* is no error (mkdir fails only over a file in the way); the delegate is  *)
(* asked once at most; and a command line of a bare URL makes the          *)
(* directory "downloads" and asks for that URL with the three-tier "best"  *)
(* format.                                                                 *)
(***************************************************************************)
BareUrl ==
    /\ ~arg.help
    /\ ~arg.audio_only
    /\ arg.quality = None
    /\ arg.output_dir = None
    /\ arg.name = None

C7_DirectoryBeforeRequest ==
    /\ (pc \in {"ydl_download", "finished"} \/ Requested) =>
          OutPath(args.output_dir) \in fs.dirs
    /\ (/\ pc = "exit"
        /\ \/ stderr = <<"Traceback: FileExistsError">>
           \/ stderr = <<"Traceback: NotADirectoryError">>) =>
          \E k \in 1..Len(OutPath(args.output_dir)) :
              SubSeq(OutPath(args.output_dir), 1, k) \in fs.files
    /\ Len(requests) <= 1
    /\ (Requested /\ BareUrl) =>
          /\ <<"downloads">> \in fs.dirs
          /\ requests[1].url = arg.url
          /\ requests[1].opts.format =
                "bestvideo[ext=mp4]+bestaudio[ext=m4a]/best[ext=mp4]/best"
          /\ requests[1].opts.outtmpl = "downloads/%(title)s.%(ext)s"

C7_Witness ==
    /\ Requested
    /\ BareUrl
    /\ arg.url \in ProgramUrls
    /\ detect_platform(arg.url) = "youtube"
    /\ mkdirs = << <<"downloads">> >>
    /\ <<"downloads">> \in fs.dirs

(***************************************************************************)
(* C8 as stated: the exit status is zero exactly when the delegate's       *)
(* download returned normally.                                             *)
(***************************************************************************)
DelegateReturned == Requested /\ requests[1].outcome = "returned"

C8_Original == pc = "exit" => (status = 0 <=> DelegateReturned)

(***************************************************************************)
(* C8 amended: the exit status is zero exactly when -h/--help was given    *)
(* and the usage printed with no download requested, or the delegate's     *)
(* download returned normally and the run reached its "finished" message   *)
(* (an interrupt between the two still aborts the run). A missing          *)
(* dependency ends the run with its message and status 1 before arguments  *)
(* are parsed, a directory is made or a download requested; an interrupt   *)
(* during the download ends it with the abort message and status 1; any    *)
(* other failure of the delegate is not caught and not retried and ends    *)
(* it with a non-zero status; "finished" is printed only after the         *)
(* delegate returned without error.                                        *)
(***************************************************************************)
C8_ExitStatus ==
    pc = "exit" =>
        /\ status \in {0, 1, 2}
        /\ status = 0 <=>
              \/ arg.help /\ ~Requested /\ stdout = <<"usage">>
              \/ DelegateReturned /\ stdout[Len(stdout)] = "finished"
        /\ (\E i \in 1..Len(stdout) : stdout[i] = "finished") =>
              DelegateReturned /\ stderr = <<>>
        /\ (\E i \in 1..Len(stderr) :
                stderr[i] = "yt-dlp is required:  pip install yt-dlp") =>
              /\ status = 1
              /\ args = Unset
              /\ mkdirs = <<>>
              /\ requests = <<>>
              /\ stdout = <<>>
        /\ (Requested /\ requests[1].outcome = "KeyboardInterrupt") =>
              status = 1 /\ stderr = <<"aborted by user">>
        /\ (Requested /\ requests[1].outcome = "DownloadError") =>
              status = 1 /\ stderr = <<"Traceback: DownloadError">>
        /\ Len(requests) <= 1

C8_Witness ==
    /\ pc = "exit"
    /\ Requested
    /\ requests[1].outcome = "KeyboardInterrupt"
    /\ stderr = <<"aborted by user">>
    /\ status = 1

(***************************************************************************)
(* C9: the URL, and with it the platform, has no part in the option block  *)
(* or in the directories made: the block download() builds is the one it   *)
(* builds for any other URL with the same other arguments, the directories *)
(* made are decided by the file system and the output directory, and the   *)
(* platform label is what the first printed line says.                     *)
(***************************************************************************)
C9_PlatformInformational ==
    Built =>
        /\ \A u \in ProgramUrls :
              ydl_opts = download_opts(u, args.audio_only, args.quality,
                                       args.output_dir, args.name)
        /\ \A i \in 1..Len(requests) : requests[i].opts = ydl_opts
        /\ \E f \in InitialFileSystems :
              /\ mkdirs = MkdirCreates(f.dirs, OutPath(args.output_dir))
              /\ fs.files = f.files
              /\ fs.dirs = f.dirs \cup {mkdirs[i] : i \in 1..Len(mkdirs)}
        /\ Len(stdout) > 0 =>
              stdout[1] = "platform: " \o detect_platform(args.url)

C9_Witness ==
    /\ Requested
    /\ detect_platform(args.url) = "instagram"
    /\ stdout[1] = "platform: instagram"
    /\ ~args.audio_only
    /\ requests[1].opts.format =
          "bestvideo[ext=mp4]+bestaudio[ext=m4a]/best[ext=mp4]/best"

(***************************************************************************)
(* C10: the output template is <output directory>/<stem>.%(ext)s, where    *)
(* the stem is the sanitized custom name when a name is given (a name     *)
(* that is not empty) and %(title)s otherwise; for every name, one of     *)
(* white space only included, the stem is non-empty, holds no              *)
(* filesystem-illegal character, and the file is directly inside the       *)
(* output directory.                                                       *)
(***************************************************************************)
C10_TemplateStem ==
    Built =>
        LET given == args.name # None /\ args.name # ""
            stem == IF given THEN safe_title(args.name) ELSE "%(title)s"
            dir == OutPath(args.output_dir)
        IN  /\ ydl_opts.outtmpl = PathStr(dir) \o "/" \o stem \o ".%(ext)s"
            /\ Len(stem) > 0
            /\ \A i \in 1..Len(stem) : Char(stem, i) \notin IllegalChars
            /\ Path(ydl_opts.outtmpl) = dir \o <<stem \o ".%(ext)s">>

====
